---- MODULE Spec2Model ----
(***************************************************************************)
(* Model of the ML pipeline orchestrator (main.py, go) and of the          *)
(* evaluation step (src/test_regression_model/run.py, go and               *)
(* _resolve_mlflow_model_dir).                                             *)
(*                                                                         *)
(* Strings are sequences of pieces: a piece is a step name, the word       *)
(* "all", a comma or a blank.  No step name is a concatenation of other    *)
(* pieces, so an element of a split equals a step name exactly when it is  *)
(* the one-piece sequence of that name.                                    *)
(* Paths are sequences of path components.                                 *)
(***************************************************************************)
EXTENDS Naturals, Sequences, FiniteSets, TLC

VARIABLES steps_par, active_steps, pc, cur, stmt, running, env, files, log,
          epc, estatus, efiles, edirs, listing, model_path, elog

vars == <<steps_par, active_steps, pc, cur, stmt, running, env, files, log,
          epc, estatus, efiles, edirs, listing, model_path, elog>>
mainVars == <<steps_par, active_steps, pc, cur, stmt, running, env, files, log>>
evalVars == <<epc, estatus, efiles, edirs, listing, model_path, elog>>

\* longest value of main.steps, in pieces
MaxLen == 3

(***************************************************************************)
(* main.py                                                                 *)
(***************************************************************************)
_steps == <<"download", "basic_cleaning", "data_check", "data_split",
            "train_random_forest", "test_regression_model">>

\* the order of the six if-blocks inside the with-block of go()
StepOrderSwapped == <<"download", "basic_cleaning", "data_check", "data_split",
                      "test_regression_model", "train_random_forest">>
StepOrder == <<"download", "basic_cleaning", "data_check", "data_split",
               "train_random_forest", "test_regression_model">>

StepNames == {_steps[i] : i \in 1..Len(_steps)}
Pieces == StepNames \cup {"all", ",", " "}
Strings == UNION {[1..n -> Pieces] : n \in 0..MaxLen}

\* a string literal made of one piece
Str(w) == <<w>>

\* str.split(","): cut at every comma, n commas give n+1 elements
RECURSIVE split(_)
split(s) ==
    IF \A i \in 1..Len(s) : s[i] # ","
    THEN <<s>>
    ELSE LET k == CHOOSE i \in 1..Len(s) :
                      s[i] = "," /\ \A j \in 1..(i-1) : s[j] # ","
         IN  <<SubSeq(s, 1, k-1)>> \o split(SubSeq(s, k+1, Len(s)))

\* steps_par.split(",") if steps_par != "all" else _steps
ActiveSteps(s) ==
    IF s # Str("all") THEN split(s) ELSE [i \in 1..Len(_steps) |-> Str(_steps[i])]

\* name in active_steps, with a substring test in place of list membership
InSubstring(name, list) ==
    \E i \in 1..Len(list) : \E j \in 1..Len(list[i]) : list[i][j] = name
\* name in active_steps: list membership, element equality
In(name, list) == \E i \in 1..Len(list) : list[i] = Str(name)

\* paths
cwd == <<"cwd">>
tmp_dir == <<"tmp", "tmpdir">>
join(d, name) == Append(d, name)
abspath(name) == join(cwd, name)
IsUnder(p, d) == Len(p) >= Len(d) /\ SubSeq(p, 1, Len(d)) = d

rf_config_in_tmp == join(tmp_dir, "rf_config.json")
rf_config == abspath("rf_config.json")
ProjCopy(s) == join(tmp_dir, s)

\* the statements of the if-block of step s, in order
BodyEnvLate(s) ==
    IF s = "train_random_forest" THEN <<"write_rf", "copy", "run", "gitenv">>
    ELSE IF s = "test_regression_model" THEN <<"copy", "run", "gitenv">>
    ELSE <<"run">>
Body(s) ==
    IF s = "train_random_forest" THEN <<"write_rf", "copy", "gitenv", "run">>
    ELSE IF s = "test_regression_model" THEN <<"copy", "gitenv", "run">>
    ELSE <<"run">>

\* steps whose parameters dictionary reads the configuration
HasConfigParams(s) == s # "test_regression_model"

Ev(op, arg) == [op |-> op, arg |-> arg]

CurStep == StepOrder[cur]
AtStmt(kind) ==
    /\ pc = "step"
    /\ stmt \in 1..Len(Body(CurStep))
    /\ Body(CurStep)[stmt] = kind

\* control after statement number stmt of the current if-block has finished
AfterStmt ==
    IF stmt < Len(Body(CurStep))
    THEN pc' = "step" /\ stmt' = stmt + 1 /\ cur' = cur
    ELSE IF cur < Len(StepOrder)
         THEN pc' = "step" /\ stmt' = 0 /\ cur' = cur + 1
         ELSE pc' = "exit" /\ stmt' = 0 /\ cur' = cur

\* an exception leaves the with-block
Raise == pc' = "unwind" /\ UNCHANGED <<cur, stmt>>

\* TemporaryDirectory.__exit__: remove the directory and all below it
Cleanup(fs) == {p \in fs : ~IsUnder(p, tmp_dir)}

SetEnv ==
    /\ pc = "setenv"
    /\ env' = env \cup {"WANDB_PROJECT", "WANDB_RUN_GROUP"}
    /\ log' = log \o <<Ev("setenv", "WANDB_PROJECT"), Ev("setenv", "WANDB_RUN_GROUP")>>
    /\ pc' = "parse"
    /\ UNCHANGED evalVars
    /\ UNCHANGED <<steps_par, active_steps, cur, stmt, running, files>>

ParseSteps ==
    /\ pc = "parse"
    /\ active_steps' = ActiveSteps(steps_par)
    /\ pc' = "mktemp"
    /\ UNCHANGED evalVars
    /\ UNCHANGED <<steps_par, cur, stmt, running, env, files, log>>

EnterTmp ==
    /\ pc = "mktemp"
    /\ files' = files \cup {tmp_dir}
    /\ log' = Append(log, Ev("mkdtemp", "tmp_dir"))
    /\ pc' = "step" /\ cur' = 1 /\ stmt' = 0
    /\ UNCHANGED evalVars
    /\ UNCHANGED <<steps_par, active_steps, running, env>>

\* if "<step>" in active_steps: true
EnterStep ==
    /\ pc = "step" /\ stmt = 0
    /\ In(CurStep, active_steps)
    /\ stmt' = 1
    /\ UNCHANGED evalVars
    /\ UNCHANGED <<steps_par, active_steps, pc, cur, running, env, files, log>>

\* if "<step>" in active_steps: false
SkipStep ==
    /\ pc = "step" /\ stmt = 0
    /\ ~In(CurStep, active_steps)
    /\ IF cur < Len(StepOrder)
       THEN pc' = "step" /\ cur' = cur + 1
       ELSE pc' = "exit" /\ cur' = cur
    /\ UNCHANGED evalVars
    /\ UNCHANGED <<steps_par, active_steps, stmt, running, env, files, log>>

WriteRfConfig ==
    /\ AtStmt("write_rf")
    /\ files' = files \cup {rf_config}
    /\ log' = Append(log, Ev("write", rf_config))
    /\ AfterStmt
    /\ UNCHANGED evalVars
    /\ UNCHANGED <<steps_par, active_steps, running, env>>

\* open() or json.dump() raises; the file may have been created already
WriteRfConfigFails ==
    /\ AtStmt("write_rf")
    /\ \E created \in BOOLEAN :
          files' = IF created THEN files \cup {rf_config} ELSE files
    /\ Raise
    /\ UNCHANGED evalVars
    /\ UNCHANGED <<steps_par, active_steps, running, env, log>>

CopyProject ==
    /\ AtStmt("copy")
    /\ files' = files \cup {ProjCopy(CurStep)}
    /\ log' = Append(log, Ev("copy", CurStep))
    /\ AfterStmt
    /\ UNCHANGED evalVars
    /\ UNCHANGED <<steps_par, active_steps, running, env>>

\* shutil.copytree raises; a partial copy may be left behind
CopyProjectFails ==
    /\ AtStmt("copy")
    /\ \E partial \in BOOLEAN :
          files' = IF partial THEN files \cup {ProjCopy(CurStep)} ELSE files
    /\ Raise
    /\ UNCHANGED evalVars
    /\ UNCHANGED <<steps_par, active_steps, running, env, log>>

SetGitTracking ==
    /\ AtStmt("gitenv")
    /\ env' = env \cup {"MLFLOW_ENABLE_GIT_TRACKING"}
    /\ log' = Append(log, Ev("setenv", "MLFLOW_ENABLE_GIT_TRACKING"))
    /\ AfterStmt
    /\ UNCHANGED evalVars
    /\ UNCHANGED <<steps_par, active_steps, running, files>>

\* mlflow.run returns at once, the run goes on in the background
InvokeRunAsync ==
    /\ AtStmt("run")
    /\ running' = running \cup {CurStep}
    /\ log' = Append(log, Ev("invoke", CurStep))
    /\ AfterStmt
    /\ UNCHANGED evalVars
    /\ UNCHANGED <<steps_par, active_steps, env, files>>
\* the parameters are built and mlflow.run is called; the call blocks
InvokeRun ==
    /\ AtStmt("run")
    /\ running' = running \cup {CurStep}
    /\ log' = Append(log, Ev("invoke", CurStep))
    /\ pc' = "wait"
    /\ UNCHANGED evalVars
    /\ UNCHANGED <<steps_par, active_steps, cur, stmt, env, files>>

\* a configuration key read for the parameters is missing
ParamError ==
    /\ AtStmt("run")
    /\ HasConfigParams(CurStep)
    /\ Raise
    /\ UNCHANGED evalVars
    /\ UNCHANGED <<steps_par, active_steps, running, env, files, log>>

RunSucceeds ==
    /\ pc = "wait"
    /\ running' = running \ {CurStep}
    /\ log' = Append(log, Ev("complete", CurStep))
    /\ AfterStmt
    /\ UNCHANGED evalVars
    /\ UNCHANGED <<steps_par, active_steps, env, files>>

\* the failure of the run is swallowed and the pipeline goes on
RunFailsSwallowed ==
    /\ pc = "wait"
    /\ running' = running \ {CurStep}
    /\ log' = Append(log, Ev("fail", CurStep))
    /\ AfterStmt
    /\ UNCHANGED evalVars
    /\ UNCHANGED <<steps_par, active_steps, env, files>>
RunFails ==
    /\ pc = "wait"
    /\ running' = running \ {CurStep}
    /\ log' = Append(log, Ev("fail", CurStep))
    /\ Raise
    /\ UNCHANGED evalVars
    /\ UNCHANGED <<steps_par, active_steps, env, files>>

\* the with-block ends normally
ExitTmp ==
    /\ pc = "exit"
    /\ files' = Cleanup(files)
    /\ log' = Append(log, Ev("cleanup", "tmp_dir"))
    /\ pc' = "done"
    /\ UNCHANGED evalVars
    /\ UNCHANGED <<steps_par, active_steps, cur, stmt, running, env>>

\* the exception propagates without the directory being removed
UnwindNoCleanup ==
    /\ pc = "unwind"
    /\ pc' = "raised"
    /\ UNCHANGED evalVars
    /\ UNCHANGED <<steps_par, active_steps, cur, stmt, running, env, files, log>>
\* the with-block ends by an exception, which then propagates out of go()
Unwind ==
    /\ pc = "unwind"
    /\ files' = Cleanup(files)
    /\ log' = Append(log, Ev("cleanup", "tmp_dir"))
    /\ pc' = "raised"
    /\ UNCHANGED evalVars
    /\ UNCHANGED <<steps_par, active_steps, cur, stmt, running, env>>

EvalIdle ==
    /\ epc = 0 /\ estatus = "idle" /\ efiles = {} /\ edirs = {}
    /\ listing = <<>> /\ model_path = <<>> /\ elog = <<>>

Init ==
    /\ steps_par \in Strings
    /\ active_steps = <<>>
    /\ pc = "setenv"
    /\ cur = 0
    /\ stmt = 0
    /\ running = {}
    /\ env = {}
    /\ files \in {{}, {rf_config}}
    /\ log = <<>>
    /\ EvalIdle

Next ==
    \/ SetEnv
    \/ ParseSteps
    \/ EnterTmp
    \/ EnterStep
    \/ SkipStep
    \/ WriteRfConfig
    \/ WriteRfConfigFails
    \/ CopyProject
    \/ CopyProjectFails
    \/ SetGitTracking
    \/ InvokeRun
    \/ ParamError
    \/ RunSucceeds
    \/ RunFails
    \/ ExitTmp
    \/ Unwind

Spec == Init /\ [][Next]_vars

(***************************************************************************)
(* src/test_regression_model/run.py                                        *)
(***************************************************************************)
\* the directory model_art.download() returns
model_root == <<"artifacts", "random_forest_export">>

\* what a download may hold: entries of the root, each absent, a file or a
\* directory; a directory may hold an entry MLmodel (a file or a directory)
\* and a directory sub, with or without a file MLmodel in it
Names == {"MLmodel", "random_forest_dir", "model"}
ChildShapes ==
    {[kind |-> "none", marker |-> "none", sub |-> "none"],
     [kind |-> "file", marker |-> "none", sub |-> "none"]}
    \cup [kind : {"dir"}, marker : {"none", "file", "dir"},
          sub : {"none", "dir", "marked"}]
FilesOf(shape) ==
    {join(model_root, n) : n \in {m \in Names : shape[m].kind = "file"}}
    \cup {join(join(model_root, n), "MLmodel") :
             n \in {m \in Names : shape[m].kind = "dir" /\ shape[m].marker = "file"}}
    \cup {join(join(join(model_root, n), "sub"), "MLmodel") :
             n \in {m \in Names : shape[m].kind = "dir" /\ shape[m].sub = "marked"}}
DirsOf(shape) ==
    {model_root}
    \cup {join(model_root, n) : n \in {m \in Names : shape[m].kind = "dir"}}
    \cup {join(join(model_root, n), "MLmodel") :
             n \in {m \in Names : shape[m].kind = "dir" /\ shape[m].marker = "dir"}}
    \cup {join(join(model_root, n), "sub") :
             n \in {m \in Names : shape[m].kind = "dir" /\ shape[m].sub # "none"}}
\* os.listdir returns the entries in an arbitrary order
Orders(S) ==
    {f \in [1..Cardinality(S) -> S] : \A i, j \in DOMAIN f : f[i] = f[j] => i = j}
Entries(shape) == {n \in Names : shape[n].kind # "none"}

isfile(fs, p) == p \in fs
NotFound == <<"FileNotFoundError">>

\* for name in os.listdir(root): the first candidate holding the marker
RECURSIVE SearchChildren(_, _, _)
SearchChildren(fs, root, names) ==
    IF names = <<>> THEN NotFound
    ELSE LET candidate == join(root, Head(names))
         IN  IF isfile(fs, join(candidate, "MLmodel"))
             THEN candidate
             ELSE SearchChildren(fs, root, Tail(names))

\* the sub-directory is probed before the root
resolve_subdir_first(fs, names, root) ==
    LET sub == join(root, "random_forest_dir")
    IN  IF isfile(fs, join(sub, "MLmodel")) THEN sub
        ELSE IF isfile(fs, join(root, "MLmodel")) THEN root
        ELSE SearchChildren(fs, root, names)
\* the search of the children is missing
resolve_no_fallback(fs, names, root) ==
    IF isfile(fs, join(root, "MLmodel")) THEN root
    ELSE LET sub == join(root, "random_forest_dir")
         IN  IF isfile(fs, join(sub, "MLmodel")) THEN sub
             ELSE NotFound
_resolve_mlflow_model_dir(fs, names, root) ==
    IF isfile(fs, join(root, "MLmodel")) THEN root
    ELSE LET sub == join(root, "random_forest_dir")
         IN  IF isfile(fs, join(sub, "MLmodel")) THEN sub
             ELSE SearchChildren(fs, root, names)

\* the calls of go(args), in order
EvalOpsLogEarly ==
    <<"init", "config_update", "use_model_artifact", "download", "resolve",
      "load_model", "use_test_artifact", "file", "read_csv", "select_target",
      "log", "predict", "metrics", "finish">>
EvalOps ==
    <<"init", "config_update", "use_model_artifact", "download", "resolve",
      "load_model", "use_test_artifact", "file", "read_csv", "select_target",
      "predict", "metrics", "log", "finish">>

AtOp(op) == estatus = "running" /\ epc \in 1..Len(EvalOps) /\ EvalOps[epc] = op
EvalAdvance ==
    /\ epc' = epc + 1
    /\ estatus' = IF epc = Len(EvalOps) THEN "returned" ELSE "running"

\* any call but the download and the resolver returns
EvalCall ==
    /\ estatus = "running" /\ epc \in 1..Len(EvalOps)
    /\ EvalOps[epc] \notin {"download", "resolve"}
    /\ elog' = Append(elog, EvalOps[epc])
    /\ EvalAdvance
    /\ UNCHANGED <<efiles, edirs, listing, model_path>>
    /\ UNCHANGED mainVars

\* any call but the resolver raises
EvalCallFails ==
    /\ estatus = "running" /\ epc \in 1..Len(EvalOps)
    /\ EvalOps[epc] # "resolve"
    /\ elog' = Append(elog, "raise")
    /\ estatus' = "raised"
    /\ UNCHANGED <<epc, efiles, edirs, listing, model_path>>
    /\ UNCHANGED mainVars

Download ==
    /\ AtOp("download")
    /\ \E shape \in [Names -> ChildShapes] :
          /\ efiles' = FilesOf(shape)
          /\ edirs' = DirsOf(shape)
          /\ listing' \in Orders(Entries(shape))
    /\ elog' = Append(elog, "download")
    /\ EvalAdvance
    /\ UNCHANGED model_path
    /\ UNCHANGED mainVars

Resolve ==
    /\ AtOp("resolve")
    /\ _resolve_mlflow_model_dir(efiles, listing, model_root) # NotFound
    /\ model_path' = _resolve_mlflow_model_dir(efiles, listing, model_root)
    /\ elog' = Append(elog, "resolve")
    /\ EvalAdvance
    /\ UNCHANGED <<efiles, edirs, listing>>
    /\ UNCHANGED mainVars

ResolveRaises ==
    /\ AtOp("resolve")
    /\ _resolve_mlflow_model_dir(efiles, listing, model_root) = NotFound
    /\ model_path' = NotFound
    /\ elog' = Append(elog, "raise")
    /\ estatus' = "raised"
    /\ UNCHANGED <<epc, efiles, edirs, listing>>
    /\ UNCHANGED mainVars

MainIdle ==
    /\ steps_par = <<>> /\ active_steps = <<>> /\ pc = "idle" /\ cur = 0
    /\ stmt = 0 /\ running = {} /\ env = {} /\ files = {} /\ log = <<>>

InitEval ==
    /\ MainIdle
    /\ epc = 1 /\ estatus = "running" /\ efiles = {} /\ edirs = {}
    /\ listing = <<>> /\ model_path = <<>> /\ elog = <<>>

NextEval ==
    \/ EvalCall
    \/ EvalCallFails
    \/ Download
    \/ Resolve
    \/ ResolveRaises

SpecEval == InitEval /\ [][NextEval]_vars

(***************************************************************************)
(* Properties of run.py                                                    *)
(***************************************************************************)
HasMarker(d) == join(d, "MLmodel") \in efiles
Children == {join(model_root, n) : n \in Names}
Resolved == model_path # <<>>
SubDir == join(model_root, "random_forest_dir")

\* C6: the resolver returns the root if the root holds the marker, else
\* root/random_forest_dir if that holds it, else a direct child that holds
\* it; an earlier branch wins even when a later candidate holds a marker too.
C6_Priority ==
    Resolved =>
       /\ HasMarker(model_root) => model_path = model_root
       /\ ~HasMarker(model_root) /\ HasMarker(SubDir) => model_path = SubDir
       /\ /\ ~HasMarker(model_root) /\ ~HasMarker(SubDir)
          /\ \E c \in Children : HasMarker(c)
          => model_path \in Children /\ HasMarker(model_path)
C6_Witness ==
    /\ Resolved
    /\ HasMarker(model_root) /\ HasMarker(SubDir) /\ HasMarker(join(model_root, "model"))
    /\ model_path = model_root

\* C8: the resolver returns a directory exactly when the root or a direct
\* child of it holds a file MLmodel, what it returns holds that file, and in
\* every other case it raises FileNotFoundError.
C8_ReturnsIffMarker ==
    Resolved =>
       /\ model_path # NotFound <=>
             (HasMarker(model_root) \/ \E c \in Children : HasMarker(c))
       /\ model_path # NotFound =>
             model_path \in edirs /\ HasMarker(model_path)
       /\ model_path = NotFound => estatus = "raised"
C8_Witness ==
    /\ Resolved
    /\ model_path = NotFound
    /\ join(join(join(model_root, "model"), "sub"), "MLmodel") \in efiles
    /\ join(join(model_root, "model"), "MLmodel") \in edirs

EPos(op) == {i \in 1..Len(elog) : elog[i] = op}
Before(a, b) == \A j \in EPos(b) : \E i \in EPos(a) : i < j
\* C10: the metrics are logged at most once, after download, resolution,
\* loading, fetching of the test data and prediction, in that order; once a
\* call has raised neither the metrics are logged nor run.finish() is called
\* afterwards; go() returns only with the metrics logged and then finish.
C10_MetricsLast ==
    /\ Cardinality(EPos("log")) <= 1
    /\ Before("download", "resolve") /\ Before("resolve", "load_model")
    /\ Before("load_model", "use_test_artifact") /\ Before("use_test_artifact", "file")
    /\ Before("file", "read_csv") /\ Before("read_csv", "predict")
    /\ Before("predict", "log") /\ Before("log", "finish")
    /\ \A i \in EPos("raise") : i = Len(elog) /\ estatus = "raised"
    /\ estatus = "raised" /\ epc <= 13 => EPos("log") = {} /\ EPos("finish") = {}
    /\ model_path = NotFound => EPos("log") = {} /\ EPos("finish") = {}
    /\ estatus = "returned" => EPos("log") # {} /\ EPos("finish") # {}
C10_Witness ==
    /\ estatus = "returned"
    /\ EPos("log") = {13} /\ EPos("finish") = {14}
    /\ model_path = join(model_root, "model")

(***************************************************************************)
(* Properties of main.py                                                   *)
(***************************************************************************)
Idx(op) == {i \in 1..Len(log) : log[i].op = op}
Invoked == {log[i].arg : i \in Idx("invoke")}
Exited == pc \in {"done", "raised"}
LocalCopies == {"train_random_forest", "test_regression_model"}

\* name stands in s between commas or string ends
ExactElement(name, s) ==
    \E i \in 1..Len(s) : /\ s[i] = name
                         /\ (i = 1 \/ s[i-1] = ",")
                         /\ (i = Len(s) \/ s[i+1] = ",")
Selected(s) ==
    IF s = <<"all">> THEN StepNames ELSE {n \in StepNames : ExactElement(n, s)}

\* C1: the steps invoked are among the step names that are exact elements of
\* the comma-separated main.steps (all six for "all"), and when go() ends
\* normally they are exactly those.
C1_InvokedAreSelected ==
    /\ Invoked \subseteq Selected(steps_par)
    /\ pc = "done" => Invoked = Selected(steps_par)
C1_Witness ==
    /\ pc = "done"
    /\ steps_par = <<"basic_cleaning", ",", "data_check">>
    /\ Invoked = {"basic_cleaning", "data_check"}

\* C2: at most one external run is in progress, and a step is invoked only
\* after the run of every step invoked before it has ended.
C2_Sequential ==
    /\ Cardinality(running) <= 1
    /\ \A i \in Idx("invoke") : \A j \in Idx("invoke") :
          j < i => \E k \in (j+1)..(i-1) :
                      /\ log[k].op \in {"complete", "fail"}
                      /\ log[k].arg = log[j].arg
C2_Witness ==
    /\ running = {"data_check"}
    /\ \E j \in Idx("invoke") : log[j].arg = "download"

\* C3: once the run of a step has failed, no step is invoked any more and
\* go() is on its way out by the exception, never done.
C3_FailureTerminates ==
    \A i \in Idx("fail") :
        /\ pc \in {"unwind", "raised"}
        /\ \A j \in (i+1)..Len(log) : log[j].op = "cleanup"
C3_Witness ==
    /\ pc = "raised"
    /\ \E i \in Idx("fail") : log[i].arg = "download"
    /\ In("data_check", active_steps)
    /\ "data_check" \notin Invoked

\* C4 as claimed: every write to the environment comes before the first
\* invocation of the runner.
C4_EnvOnlyAtStartup ==
    \A i \in Idx("setenv") : \A j \in Idx("invoke") : i < j
\* C4 amended: WANDB_PROJECT and WANDB_RUN_GROUP are written once each at
\* start-up, before the temporary directory and any run; the only other write
\* is MLFLOW_ENABLE_GIT_TRACKING, right after the project copy of
\* train_random_forest or test_regression_model and before the run of that
\* step; no write happens while a run is in progress.
C4_EnvWrites ==
    \A i \in Idx("setenv") :
        /\ \A j \in Idx("setenv") : log[i].arg = log[j].arg /\ log[i].arg # "MLFLOW_ENABLE_GIT_TRACKING" => i = j
        /\ log[i].arg \in {"WANDB_PROJECT", "WANDB_RUN_GROUP"} => i <= 2
        /\ i > 2 =>
             /\ log[i].arg = "MLFLOW_ENABLE_GIT_TRACKING"
             /\ log[i-1].op = "copy"
             /\ log[i-1].arg \in LocalCopies
             /\ \A j \in Idx("invoke") : log[j].arg = log[i-1].arg => i < j
        /\ Cardinality({j \in Idx("invoke") : j < i})
             = Cardinality({j \in Idx("complete") \cup Idx("fail") : j < i})
C4_Witness ==
    /\ \E i \in Idx("setenv") : \E j \in Idx("invoke") :
          j < i /\ log[i].arg = "MLFLOW_ENABLE_GIT_TRACKING"
    /\ "train_random_forest" \in Invoked

\* C5 as claimed: the hyperparameter file is written inside the temporary
\* directory and is gone once go() has exited.
C5_RfConfigInTmp ==
    \A i \in Idx("write") :
        /\ IsUnder(log[i].arg, tmp_dir)
        /\ Exited => log[i].arg \notin files
\* C5 amended: the hyperparameter file is written to rf_config.json in the
\* current working directory, outside the temporary directory, before the run
\* of train_random_forest is invoked, and go() leaves it in place on exit.
C5_RfConfigInCwd ==
    /\ \A i \in Idx("write") :
          /\ log[i].arg = join(cwd, "rf_config.json")
          /\ ~IsUnder(log[i].arg, tmp_dir)
          /\ log[i].arg \in files
    /\ \A j \in Idx("invoke") :
          log[j].arg = "train_random_forest" => \E i \in Idx("write") : i < j
C5_Witness ==
    /\ pc = "done"
    /\ "train_random_forest" \in Invoked
    /\ join(cwd, "rf_config.json") \in files
    /\ tmp_dir \notin files

Pos(name) == CHOOSE i \in 1..Len(_steps) : _steps[i] = name
\* C7: the invocations follow the fixed pipeline order, strictly, so no step
\* is invoked twice.
C7_FixedOrderOnce ==
    \A i \in Idx("invoke") : \A j \in Idx("invoke") :
        i < j => Pos(log[i].arg) < Pos(log[j].arg)
C7_Witness ==
    /\ steps_par = <<"test_regression_model", ",", "train_random_forest">>
    /\ pc = "done"
    /\ Invoked = {"train_random_forest", "test_regression_model"}

\* C9: when go() has exited, normally or by an exception, nothing is left of
\* the temporary directory; a project copy exists only for an active
\* train_random_forest or test_regression_model step, is made before the run
\* of that step, and that run is not invoked without it.
C9_TmpRemoved ==
    /\ Exited => \A p \in files : ~IsUnder(p, tmp_dir)
    /\ \A s \in StepNames : ProjCopy(s) \in files =>
          s \in LocalCopies /\ In(s, active_steps)
    /\ \A i \in Idx("copy") :
          /\ log[i].arg \in LocalCopies /\ In(log[i].arg, active_steps)
          /\ \A j \in Idx("invoke") : log[j].arg = log[i].arg => i < j
    /\ \A j \in Idx("invoke") :
          log[j].arg \in LocalCopies => \E i \in Idx("copy") : log[i].arg = log[j].arg
C9_Witness ==
    /\ pc = "raised"
    /\ \E i \in Idx("copy") : log[i].arg = "train_random_forest"
    /\ \E i \in Idx("fail") : log[i].arg = "test_regression_model"
    /\ \A p \in files : ~IsUnder(p, tmp_dir)

====
